---- MODULE Spec2Model ----
(***************************************************************************)
(* A model of the polyphonic subtractive synthesizer of src/src/lib.rs:    *)
(* the voice flags, the MIDI event router, the message handler and the     *)
(* per-sample tick.  The DSP units (oscillator, ADSR, filters, tremolo)    *)
(* and the voice pool (VoiceArray) belong to the oxcable crate; the units  *)
(* are modelled by the parameters and the messages they receive, the pool  *)
(* by its contract.                                                        *)
(***************************************************************************)
EXTENDS Integers, Sequences, FiniteSets, TLC

(* ------------------------------ bounds -------------------------------- *)
\* num_voices given to SubtractiveSynth::new
NumVoices == 2
\* number of distinct MIDI notes the event source plays
MaxNotes == 3
\* most messages sent to the synth from outside (MessageReceiver)
MaxMsgs == 1
\* deepest nesting of handle_event inside handle_message of a run that
\* returns
MaxDepth == 3
\* most builder calls made on the new synth before it is used
MaxBuilt == 2
\* most events the event source delivers for one tick
MaxBatch == 2

Voices == 1 .. NumVoices
Notes == 60 .. (59 + MaxNotes)

(* --------------------------- value domains ---------------------------- *)
\* a parameter of an oxcable unit that the synth has not set yet
Unset == -1
\* the 7-bit MIDI data range
MidiMax == 127
\* the only velocity the model plays: the synth ignores it
Velocity == 100

NoEvent == [type |-> "None", d1 |-> 0, d2 |-> 0]
NoteOn(n) == [type |-> "NoteOn", d1 |-> n, d2 |-> Velocity]
NoteOff(n) == [type |-> "NoteOff", d1 |-> n, d2 |-> Velocity]
\* d1 = 1 for SustainPedal(true), 0 for SustainPedal(false)
SustainPedal(b) == [type |-> "SustainPedal", d1 |-> b, d2 |-> 0]
\* value in [-1, 1]
PitchBend(x) == [type |-> "PitchBend", d1 |-> x, d2 |-> 0]
ControlChange(c, x) == [type |-> "ControlChange", d1 |-> c, d2 |-> x]

\* the controllers the event source turns: an ADSR knob and the LFO knob
\* of the QX49 map, and the modulation wheel, which the map ignores
Controllers == {22, 26, 1}
ControlValues == {MidiMax}
BendValues == {0, 1}

\* what a performance sends: keys, the pedal and the pitch wheel
PlayedEvents ==
    {NoteOn(n) : n \in Notes} \cup {NoteOff(n) : n \in Notes}
      \cup {SustainPedal(b) : b \in {0, 1}}
      \cup {PitchBend(x) : x \in BendValues}

\* what a knob session sends: the knobs, one key and the pedal
ControlEvents ==
    {ControlChange(c, x) : c \in Controllers, x \in ControlValues}
      \cup {NoteOn(60), NoteOff(60), SustainPedal(1)}

Events == PlayedEvents \cup ControlEvents

(* ----------------------------- messages ------------------------------- *)
\* Numbers that the code holds as f32 are held as integers: times, levels
\* and frequencies in units of 1/127 (the step of a normalised controller
\* value), gains in whole decibels, linear ratios in thousandths.
NoMode == [kind |-> "None", cutoff |-> 0]
LowPass(f) == [kind |-> "LowPass", cutoff |-> f]
HighPass(f) == [kind |-> "HighPass", cutoff |-> f]

Msg(m, x, w, fm, e) == [msg |-> m, num |-> x, wave |-> w, mode |-> fm, ev |-> e]
NoMsg == Msg("None", 0, "", NoMode, NoEvent)
SetGain(g) == Msg("SetGain", g, "", NoMode, NoEvent)
SetOsc1(w) == Msg("SetOsc1", 0, w, NoMode, NoEvent)
SetOsc2(w) == Msg("SetOsc2", 0, w, NoMode, NoEvent)
SetOsc1Transpose(x) == Msg("SetOsc1Transpose", x, "", NoMode, NoEvent)
SetOsc2Transpose(x) == Msg("SetOsc2Transpose", x, "", NoMode, NoEvent)
SetAttack(x) == Msg("SetAttack", x, "", NoMode, NoEvent)
SetDecay(x) == Msg("SetDecay", x, "", NoMode, NoEvent)
SetSustain(x) == Msg("SetSustain", x, "", NoMode, NoEvent)
SetRelease(x) == Msg("SetRelease", x, "", NoMode, NoEvent)
SetLFOFreq(x) == Msg("SetLFOFreq", x, "", NoMode, NoEvent)
SetVibrato(x) == Msg("SetVibrato", x, "", NoMode, NoEvent)
SetTremolo(x) == Msg("SetTremolo", x, "", NoMode, NoEvent)
SetFilterFirstOrder(fm) == Msg("SetFilterFirstOrder", 0, "", fm, NoEvent)
SetFilterSecondOrder(fm) == Msg("SetFilterSecondOrder", 0, "", fm, NoEvent)
SendMidiEvent(e) == Msg("SendMidiEvent", 0, "", NoMode, e)

\* the control map of the standalone binary
qx49_controls(controller, value) ==
    LET range == value  \* value / 127.0, in units of 1/127
    IN  CASE controller = 22 -> SetAttack(5 * range)
          [] controller = 23 -> SetDecay(5 * range)
          [] controller = 24 -> SetSustain(range)
          [] controller = 25 -> SetRelease(5 * range)
          [] controller = 26 -> SetLFOFreq(10 * range)
          [] controller = 27 -> SetVibrato(range)
          [] OTHER -> NoMsg

\* a control map that answers controllers with MIDI events: controller 64
\* becomes the sustain pedal, controller 2 is passed on as controller 22,
\* controller 1 is passed on as itself
relay_controls(controller, value) ==
    CASE controller = 64 ->
           SendMidiEvent(SustainPedal(IF value >= 64 THEN 1 ELSE 0))
      [] controller = 2 -> SendMidiEvent(ControlChange(22, value))
      [] controller = 1 -> SendMidiEvent(ControlChange(1, value))
      [] OTHER -> NoMsg

\* the closures a caller may pass to control_map
ControlMaps == {"qx49_controls"}
RelayMaps == {"relay_controls"}

\* Some(ref f) => f(controller, value)
CallMap(f, controller, value) ==
    CASE f = "qx49_controls" -> qx49_controls(controller, value)
      [] f = "relay_controls" -> relay_controls(controller, value)
      [] OTHER -> NoMsg

\* oxcable::utils::helpers::decibel_to_ratio, 10^(db/20), in thousandths
decibel_to_ratio(db) ==
    CASE db = -6 -> 501
      [] db = 0 -> 1000
      [] db = 6 -> 1995
      [] OTHER -> 1000

\* oxcable::utils::helpers::midi_note_to_freq, 440*2^((note-69)/12), in Hz
midi_note_to_freq(note) ==
    CASE note = 60 -> 262
      [] note = 61 -> 277
      [] note = 62 -> 294
      [] note = 63 -> 311
      [] note = 64 -> 330
      [] OTHER -> 440

(* ------------------------------ a voice ------------------------------- *)
\* Oscillator::new(oscillator::Sine): only the waveform is given
NewOscillator ==
    [waveform |-> "Sine", freq |-> Unset, transpose |-> Unset,
     bend |-> Unset, lfo_intensity |-> Unset]

\* Adsr::default(1)
NewAdsr ==
    [attack |-> Unset, decay |-> Unset, sustain |-> Unset,
     release |-> Unset, gate |-> "never"]

\* SubtractiveSynthVoice::new
NewVoice ==
    [key_held |-> FALSE, sustain_held |-> FALSE,
     osc1 |-> NewOscillator, osc2 |-> NewOscillator, adsr |-> NewAdsr]

\* What handle_event gives: the voice after the event and the messages
\* the event made it send to its envelope.

VoiceNoteOn_NoTrigger(vc, note) ==
    LET freq == midi_note_to_freq(note)
    IN  [voice |-> [vc EXCEPT !.key_held = TRUE,
                              !.osc1.freq = freq,
                              !.osc2.freq = freq],
         sent |-> <<>>]

VoiceNoteOn_LiftsPedal(vc, note) ==
    LET freq == midi_note_to_freq(note)
    IN  [voice |-> [vc EXCEPT !.key_held = TRUE,
                              !.sustain_held = FALSE,
                              !.osc1.freq = freq,
                              !.osc2.freq = freq,
                              !.adsr.gate = "down"],
         sent |-> <<"NoteDown">>]

\* SubtractiveSynthVoice::handle_event, MidiMessage::NoteOn(note, _)
VoiceNoteOn(vc, note) ==
    LET freq == midi_note_to_freq(note)
    IN  [voice |-> [vc EXCEPT !.key_held = TRUE,
                              !.osc1.freq = freq,
                              !.osc2.freq = freq,
                              !.adsr.gate = "down"],
         sent |-> <<"NoteDown">>]

VoiceNoteOff_IgnoresPedal(vc) ==
    [voice |-> [vc EXCEPT !.key_held = FALSE, !.adsr.gate = "up"],
     sent |-> <<"NoteUp">>]

VoiceNoteOff_SilentKeyUp(vc) ==
    [voice |-> [vc EXCEPT !.key_held = FALSE], sent |-> <<>>]

VoiceNoteOff_KeepsKeyUnderPedal(vc) ==
    IF ~vc.sustain_held
    THEN [voice |-> [vc EXCEPT !.key_held = FALSE, !.adsr.gate = "up"],
          sent |-> <<"NoteUp">>]
    ELSE [voice |-> vc, sent |-> <<>>]

VoiceNoteOff_LiftsPedal(vc) ==
    IF ~vc.sustain_held
    THEN [voice |-> [vc EXCEPT !.key_held = FALSE, !.adsr.gate = "up"],
          sent |-> <<"NoteUp">>]
    ELSE [voice |-> [vc EXCEPT !.key_held = FALSE, !.sustain_held = FALSE],
          sent |-> <<>>]

\* SubtractiveSynthVoice::handle_event, MidiMessage::NoteOff(_, _)
VoiceNoteOff(vc) ==
    IF ~vc.sustain_held
    THEN [voice |-> [vc EXCEPT !.key_held = FALSE, !.adsr.gate = "up"],
          sent |-> <<"NoteUp">>]
    ELSE [voice |-> [vc EXCEPT !.key_held = FALSE], sent |-> <<>>]

VoiceSustainPedal_IgnoresKey(vc, on) ==
    IF on
    THEN [voice |-> [vc EXCEPT !.sustain_held = TRUE], sent |-> <<>>]
    ELSE [voice |-> [vc EXCEPT !.sustain_held = FALSE, !.adsr.gate = "up"],
          sent |-> <<"NoteUp">>]

VoiceSustainPedal_NeverReleases(vc, on) ==
    [voice |-> [vc EXCEPT !.sustain_held = on], sent |-> <<>>]

\* SubtractiveSynthVoice::handle_event, MidiMessage::SustainPedal(true)
\* and MidiMessage::SustainPedal(false)
VoiceSustainPedal(vc, on) ==
    IF on
    THEN [voice |-> [vc EXCEPT !.sustain_held = TRUE], sent |-> <<>>]
    ELSE IF ~vc.key_held
         THEN [voice |-> [vc EXCEPT !.sustain_held = FALSE, !.adsr.gate = "up"],
               sent |-> <<"NoteUp">>]
         ELSE [voice |-> [vc EXCEPT !.sustain_held = FALSE], sent |-> <<>>]

VoicePitchBend_Accumulates(vc, value) ==
    LET old == IF vc.osc1.bend = Unset THEN 0 ELSE vc.osc1.bend
        bend == old + 2 * value
    IN  [voice |-> [vc EXCEPT !.osc1.bend = bend, !.osc2.bend = bend],
         sent |-> <<>>]

\* SubtractiveSynthVoice::handle_event, MidiMessage::PitchBend(value)
VoicePitchBend(vc, value) ==
    LET bend == 2 * value
    IN  [voice |-> [vc EXCEPT !.osc1.bend = bend, !.osc2.bend = bend],
         sent |-> <<>>]

\* SubtractiveSynthVoice::handle_event
VoiceHandleEvent(vc, e) ==
    CASE e.type = "NoteOn" -> VoiceNoteOn(vc, e.d1)
      [] e.type = "NoteOff" -> VoiceNoteOff(vc)
      [] e.type = "SustainPedal" -> VoiceSustainPedal(vc, e.d1 = 1)
      [] e.type = "PitchBend" -> VoicePitchBend(vc, e.d1)
      [] OTHER -> [voice |-> vc, sent |-> <<>>]

(* --------------------------- the voice pool --------------------------- *)
\* VoiceArray::new: no note is bound (0) to any of the voices
VoiceArrayNew == [n \in Notes |-> 0]

BoundVoices(pool) == {pool[n] : n \in Notes} \ {0}

\* the voices note_on may hand out for the note: the voice that holds it,
\* else a free voice, else, the pool being full, a voice to steal
NoteOnChoices(pool, note) ==
    IF pool[note] # 0 THEN {pool[note]}
    ELSE IF Voices \ BoundVoices(pool) # {} THEN Voices \ BoundVoices(pool)
    ELSE Voices

\* VoiceArray::note_on, pick being the voice the reuse policy selects for
\* a note that is not held: a held note keeps its voice (retrigger); the
\* note that the picked voice was playing, if any, loses it (stolen)
note_on(pool, note, pick) ==
    LET v == IF pool[note] # 0 THEN pool[note] ELSE pick
    IN  [voice |-> v,
         pool |-> [n \in Notes |-> IF n = note THEN v
                                   ELSE IF pool[n] = v THEN 0 ELSE pool[n]],
         retrigger |-> pool[note] # 0,
         stolen |-> {n \in Notes \ {note} : pool[n] = v}]

\* VoiceArray::note_off: the note's voice (0 for None) and the pool after
note_off(pool, note) ==
    [voice |-> pool[note], pool |-> [pool EXCEPT ![note] = 0]]

(* ------------------------------ the synth ----------------------------- *)
\* A sample is known by the unit that produced it and by whether it was
\* produced in the current tick; scale is the factor, in thousandths, that
\* the synth applied to it.
Sample(src, fresh, scale) == [src |-> src, fresh |-> fresh, scale |-> scale]
Zero == Sample("zero", FALSE, 1000)
Stale(x) == [x EXCEPT !.fresh = FALSE]

New_OneVoiceTooMany(num_voices) ==
    [voices |-> [v \in 1 .. num_voices + 1 |-> NewVoice],
     pool |-> VoiceArrayNew,
     controls |-> "None",
     gain |-> 1000 \div num_voices,
     lfo |-> [freq |-> 10 * MidiMax, out |-> Zero],
     filter |-> "FirstOrder",
     first_filter |-> [mode |-> LowPass(20000), inp |-> Zero, out |-> Zero],
     second_filter |-> [mode |-> LowPass(20000), inp |-> Zero, out |-> Zero],
     tremolo |-> [intensity |-> 0, inp0 |-> Zero, inp1 |-> Zero, out |-> Zero]]

\* SubtractiveSynth::new(midi, num_voices)
New(num_voices) ==
    [voices |-> [v \in 1 .. num_voices |-> NewVoice],
     pool |-> VoiceArrayNew,
     controls |-> "None",
     gain |-> 1000 \div num_voices,
     lfo |-> [freq |-> 10 * MidiMax, out |-> Zero],
     filter |-> "FirstOrder",
     first_filter |-> [mode |-> LowPass(20000), inp |-> Zero, out |-> Zero],
     second_filter |-> [mode |-> LowPass(20000), inp |-> Zero, out |-> Zero],
     tremolo |-> [intensity |-> 0, inp0 |-> Zero, inp1 |-> Zero, out |-> Zero]]

\* One run of a handler: the synth, and what the run did: the voices whose
\* handle_event it called, the messages each voice sent to its envelope,
\* the calls made to the control map, whether the pool found the note
\* held already, the notes whose voice was stolen, how deep handle_event
\* is nested in handle_message, whether the nesting passed MaxDepth.
Run(s) ==
    [synth |-> s,
     delivered |-> <<>>,
     sent |-> [v \in DOMAIN s.voices |-> <<>>],
     calls |-> <<>>,
     retriggered |-> FALSE,
     stolen |-> {},
     depth |-> 0,
     overflow |-> FALSE]

\* voice.handle_event(event) on voice v
Deliver(r, v, e) ==
    LET res == VoiceHandleEvent(r.synth.voices[v], e)
    IN  [r EXCEPT !.synth.voices[v] = res.voice,
                  !.delivered = Append(r.delivered, v),
                  !.sent[v] = r.sent[v] \o res.sent]

\* for voice in self.voices.iter_mut() { voice.handle_event(event) }
RECURSIVE BroadcastFrom(_, _, _)
BroadcastFrom(r, v, e) ==
    IF v > Len(r.synth.voices) THEN r
    ELSE BroadcastFrom(Deliver(r, v, e), v + 1, e)

Broadcast_BoundOnly(r, e) ==
    LET bound == BoundVoices(r.synth.pool)
        res(v) == VoiceHandleEvent(r.synth.voices[v], e)
    IN  [r EXCEPT !.synth.voices =
                      [v \in DOMAIN r.synth.voices |->
                          IF v \in bound THEN res(v).voice
                          ELSE r.synth.voices[v]],
                  !.delivered =
                      r.delivered \o SelectSeq([v \in DOMAIN r.synth.voices |-> v],
                                               LAMBDA v : v \in bound),
                  !.sent =
                      [v \in DOMAIN r.sent |->
                          IF v \in bound THEN r.sent[v] \o res(v).sent
                          ELSE r.sent[v]]]

\* SubtractiveSynth::handle_event, every other event: all voices get it
Broadcast(r, e) == BroadcastFrom(r, 1, e)

RECURSIVE HandleMessage(_, _, _)

SynthNoteOn_DropsWhenFull(r, e, pick) ==
    LET res == note_on(r.synth.pool, e.d1, pick)
    IN  IF res.stolen # {} THEN r
        ELSE Deliver([r EXCEPT !.synth.pool = res.pool], res.voice, e)

SynthNoteOn_AlsoBroadcasts(r, e, pick) ==
    LET res == note_on(r.synth.pool, e.d1, pick)
    IN  Broadcast([r EXCEPT !.synth.pool = res.pool,
                            !.retriggered = res.retrigger,
                            !.stolen = r.stolen \cup res.stolen],
                  e)

\* SubtractiveSynth::handle_event, MidiMessage::NoteOn(note, _); pick is
\* the voice the pool's reuse policy selects if the note is not held
SynthNoteOn(r, e, pick) ==
    LET res == note_on(r.synth.pool, e.d1, pick)
    IN  Deliver([r EXCEPT !.synth.pool = res.pool,
                          !.retriggered = res.retrigger,
                          !.stolen = r.stolen \cup res.stolen],
                res.voice, e)

SynthNoteOff_Broadcast(r, e) == Broadcast(r, e)

SynthNoteOff_UnbindsOnly(r, e) ==
    [r EXCEPT !.synth.pool = note_off(r.synth.pool, e.d1).pool]

SynthNoteOff_FirstVoiceWhenUnbound(r, e) ==
    LET res == note_off(r.synth.pool, e.d1)
    IN  IF res.voice = 0 THEN Deliver(r, 1, e)
        ELSE Deliver([r EXCEPT !.synth.pool = res.pool], res.voice, e)

\* SubtractiveSynth::handle_event, MidiMessage::NoteOff(note, _)
SynthNoteOff(r, e) ==
    LET res == note_off(r.synth.pool, e.d1)
    IN  IF res.voice = 0 THEN r
        ELSE Deliver([r EXCEPT !.synth.pool = res.pool], res.voice, e)

SynthControlChange_DefaultMap(r, e, pick) ==
    LET f == IF r.synth.controls = "None" THEN "qx49_controls"
             ELSE r.synth.controls
        msg == CallMap(f, e.d1, e.d2)
        called == [r EXCEPT !.calls = Append(r.calls, <<e.d1, e.d2>>)]
    IN  IF msg = NoMsg THEN called ELSE HandleMessage(called, msg, pick)

SynthControlChange_SwappedArguments(r, e, pick) ==
    IF r.synth.controls = "None" THEN r
    ELSE LET msg == CallMap(r.synth.controls, e.d2, e.d1)
             called == [r EXCEPT !.calls = Append(r.calls, <<e.d2, e.d1>>)]
         IN  IF msg = NoMsg THEN called ELSE HandleMessage(called, msg, pick)

\* SubtractiveSynth::handle_event, MidiMessage::ControlChange(controller,
\* value)
SynthControlChange(r, e, pick) ==
    IF r.synth.controls = "None" THEN r
    ELSE LET msg == CallMap(r.synth.controls, e.d1, e.d2)
             called == [r EXCEPT !.calls = Append(r.calls, <<e.d1, e.d2>>)]
         IN  IF msg = NoMsg THEN called ELSE HandleMessage(called, msg, pick)

\* SubtractiveSynth::handle_event
HandleEvent(r, e, pick) ==
    CASE e.type = "NoteOn" -> SynthNoteOn(r, e, pick)
      [] e.type = "NoteOff" -> SynthNoteOff(r, e)
      [] e.type = "ControlChange" -> SynthControlChange(r, e, pick)
      [] OTHER -> Broadcast(r, e)

\* handle_message, Message::SetGain(gain), gain in decibels
SynthSetGain(r, gain) ==
    [r EXCEPT !.synth.gain = decibel_to_ratio(gain)]

\* handle_message, Message::SetOsc1(waveform): every voice is updated
SynthSetOsc1(r, waveform) ==
    [r EXCEPT !.synth.voices =
        [v \in DOMAIN r.synth.voices |->
            [r.synth.voices[v] EXCEPT !.osc1.waveform = waveform]]]

\* handle_message, Message::SetOsc2(waveform): every voice is updated
SynthSetOsc2(r, waveform) ==
    [r EXCEPT !.synth.voices =
        [v \in DOMAIN r.synth.voices |->
            [r.synth.voices[v] EXCEPT !.osc2.waveform = waveform]]]

\* handle_message, Message::SetOsc1Transpose(steps): every voice is updated
SynthSetOsc1Transpose(r, steps) ==
    [r EXCEPT !.synth.voices =
        [v \in DOMAIN r.synth.voices |->
            [r.synth.voices[v] EXCEPT !.osc1.transpose = steps]]]

\* handle_message, Message::SetOsc2Transpose(steps): every voice is updated
SynthSetOsc2Transpose(r, steps) ==
    [r EXCEPT !.synth.voices =
        [v \in DOMAIN r.synth.voices |->
            [r.synth.voices[v] EXCEPT !.osc2.transpose = steps]]]

SynthSetAttack_FirstVoiceOnly(r, attack) ==
    [r EXCEPT !.synth.voices[1].adsr.attack = attack]

\* handle_message, Message::SetAttack(attack): every voice is updated
SynthSetAttack(r, attack) ==
    [r EXCEPT !.synth.voices =
        [v \in DOMAIN r.synth.voices |->
            [r.synth.voices[v] EXCEPT !.adsr.attack = attack]]]

\* handle_message, Message::SetDecay(decay): every voice is updated
SynthSetDecay(r, decay) ==
    [r EXCEPT !.synth.voices =
        [v \in DOMAIN r.synth.voices |->
            [r.synth.voices[v] EXCEPT !.adsr.decay = decay]]]

\* handle_message, Message::SetSustain(sustain): every voice is updated
SynthSetSustain(r, sustain) ==
    [r EXCEPT !.synth.voices =
        [v \in DOMAIN r.synth.voices |->
            [r.synth.voices[v] EXCEPT !.adsr.sustain = sustain]]]

\* handle_message, Message::SetRelease(release): every voice is updated
SynthSetRelease(r, release) ==
    [r EXCEPT !.synth.voices =
        [v \in DOMAIN r.synth.voices |->
            [r.synth.voices[v] EXCEPT !.adsr.release = release]]]

\* handle_message, Message::SetLFOFreq(freq)
SynthSetLFOFreq(r, freq) ==
    [r EXCEPT !.synth.lfo.freq = freq]

\* handle_message, Message::SetVibrato(intensity): every voice is updated
SynthSetVibrato(r, intensity) ==
    [r EXCEPT !.synth.voices =
        [v \in DOMAIN r.synth.voices |->
            [r.synth.voices[v] EXCEPT !.osc1.lfo_intensity = intensity,
                                     !.osc2.lfo_intensity = intensity]]]

\* handle_message, Message::SetTremolo(intensity)
SynthSetTremolo(r, intensity) ==
    [r EXCEPT !.synth.tremolo.intensity = intensity]

SynthSetFilterFirstOrder_ModeOnly(r, mode) ==
    [r EXCEPT !.synth.first_filter.mode = mode]

\* handle_message, Message::SetFilterFirstOrder(mode)
SynthSetFilterFirstOrder(r, mode) ==
    [r EXCEPT !.synth.filter = "FirstOrder",
              !.synth.first_filter.mode = mode]

\* handle_message, Message::SetFilterSecondOrder(mode)
SynthSetFilterSecondOrder(r, mode) ==
    [r EXCEPT !.synth.filter = "SecondOrder",
              !.synth.second_filter.mode = mode]

SynthSendMidiEvent_NotesOnly(r, event, pick) ==
    IF event.type \in {"NoteOn", "NoteOff"}
    THEN HandleEvent(r, event, pick)
    ELSE r

\* handle_message, Message::SendMidiEvent(event): handle_event is called
\* from inside handle_message, one level deeper; a run that nests deeper
\* than MaxDepth is one that does not return
SynthSendMidiEvent(r, event, pick) ==
    IF r.depth >= MaxDepth THEN [r EXCEPT !.overflow = TRUE]
    ELSE [HandleEvent([r EXCEPT !.depth = @ + 1], event, pick)
             EXCEPT !.depth = r.depth]

\* MessageReceiver::handle_message
HandleMessage(r, m, pick) ==
    CASE m.msg = "SetGain" -> SynthSetGain(r, m.num)
      [] m.msg = "SetOsc1" -> SynthSetOsc1(r, m.wave)
      [] m.msg = "SetOsc2" -> SynthSetOsc2(r, m.wave)
      [] m.msg = "SetOsc1Transpose" -> SynthSetOsc1Transpose(r, m.num)
      [] m.msg = "SetOsc2Transpose" -> SynthSetOsc2Transpose(r, m.num)
      [] m.msg = "SetAttack" -> SynthSetAttack(r, m.num)
      [] m.msg = "SetDecay" -> SynthSetDecay(r, m.num)
      [] m.msg = "SetSustain" -> SynthSetSustain(r, m.num)
      [] m.msg = "SetRelease" -> SynthSetRelease(r, m.num)
      [] m.msg = "SetLFOFreq" -> SynthSetLFOFreq(r, m.num)
      [] m.msg = "SetVibrato" -> SynthSetVibrato(r, m.num)
      [] m.msg = "SetTremolo" -> SynthSetTremolo(r, m.num)
      [] m.msg = "SetFilterFirstOrder" -> SynthSetFilterFirstOrder(r, m.mode)
      [] m.msg = "SetFilterSecondOrder" -> SynthSetFilterSecondOrder(r, m.mode)
      [] m.msg = "SendMidiEvent" -> SynthSendMidiEvent(r, m.ev, pick)

(* ------------------------------ builders ------------------------------ *)
\* SubtractiveSynth::gain(gain), in decibels
gain(s, db) == HandleMessage(Run(s), SetGain(db), 1).synth

\* SubtractiveSynth::osc1(waveform)
osc1(s, waveform) == HandleMessage(Run(s), SetOsc1(waveform), 1).synth

\* SubtractiveSynth::osc2(waveform)
osc2(s, waveform) == HandleMessage(Run(s), SetOsc2(waveform), 1).synth

\* SubtractiveSynth::osc1_transpose(steps)
osc1_transpose(s, steps) ==
    HandleMessage(Run(s), SetOsc1Transpose(steps), 1).synth

\* SubtractiveSynth::osc2_transpose(steps)
osc2_transpose(s, steps) ==
    HandleMessage(Run(s), SetOsc2Transpose(steps), 1).synth

adsr_WithoutRelease(s, attack_time, decay_time, sustain_level, release_time) ==
    LET a == HandleMessage(Run(s), SetAttack(attack_time), 1)
        b == HandleMessage(a, SetDecay(decay_time), 1)
    IN  HandleMessage(b, SetSustain(sustain_level), 1).synth

\* SubtractiveSynth::adsr(attack_time, decay_time, sustain_level,
\* release_time): four messages, in this order
adsr(s, attack_time, decay_time, sustain_level, release_time) ==
    LET a == HandleMessage(Run(s), SetAttack(attack_time), 1)
        b == HandleMessage(a, SetDecay(decay_time), 1)
        c == HandleMessage(b, SetSustain(sustain_level), 1)
    IN  HandleMessage(c, SetRelease(release_time), 1).synth

\* SubtractiveSynth::lfo(freq)
lfo(s, freq) == HandleMessage(Run(s), SetLFOFreq(freq), 1).synth

\* SubtractiveSynth::vibrato(vibrato)
vibrato(s, intensity) == HandleMessage(Run(s), SetVibrato(intensity), 1).synth

\* SubtractiveSynth::tremolo(tremolo)
tremolo(s, intensity) == HandleMessage(Run(s), SetTremolo(intensity), 1).synth

\* SubtractiveSynth::first_order(mode)
first_order(s, mode) ==
    HandleMessage(Run(s), SetFilterFirstOrder(mode), 1).synth

\* SubtractiveSynth::second_order(mode)
second_order(s, mode) ==
    HandleMessage(Run(s), SetFilterSecondOrder(mode), 1).synth

\* the arguments the program that builds the synth passes
BuiltGains == {6}
BuiltWaveforms == {"Tri"}
BuiltSteps == {-12}
BuiltEnvelopes == {<<10, 20, 30, 40>>}
BuiltFreqs == {2 * MidiMax}
BuiltIntensities == {16}
BuiltFirstModes == {LowPass(800)}
BuiltSecondModes == {HighPass(300)}

(* ------------------------------- inputs ------------------------------- *)
\* the parameter messages a caller sends through MessageReceiver
ParameterMessages ==
    {SetGain(-6), SetOsc1("Saw"), SetOsc2("Square"),
     SetOsc1Transpose(12), SetOsc2Transpose(7),
     SetAttack(MidiMax), SetDecay(2 * MidiMax), SetSustain(64),
     SetRelease(3 * MidiMax), SetLFOFreq(5 * MidiMax), SetVibrato(32),
     SetTremolo(3),
     SetFilterFirstOrder(HighPass(500)), SetFilterSecondOrder(LowPass(1000))}

\* the messages of a performance and of a knob session
PlayedMessages == {SendMidiEvent(e) : e \in PlayedEvents}
ControlMessages == ParameterMessages \cup {SendMidiEvent(e) : e \in ControlEvents}

\* what the pool's reuse policy may pick while the event is handled
PickChoices(s, e) ==
    IF e.type = "NoteOn" THEN NoteOnChoices(s.pool, e.d1) ELSE {1}

(* ------------------------------- state -------------------------------- *)
VARIABLES
    synth,      \* the SubtractiveSynth
    delivered,  \* the voices whose handle_event the last handler run called
    sent,       \* envelope messages each voice sent in the last handler run
    calls,      \* control map calls of the last handler run
    retriggered,\* whether the last handler run struck a note already held
    stolen,     \* the notes whose voice the last handler run stole
    last,       \* the MIDI event the last step handled, NoEvent if none
    sustained,  \* the voices handed a NoteOff while the pedal was down,
                \* since the last pedal release
    pc,         \* "new" before the first tick, "idle" between ticks,
                \* "events" inside tick's loop over get_events(t)
    output,     \* outputs[0] of the last tick
    advanced,   \* the units ticked in this tick, in order
    msgs,       \* number of messages received from outside
    call,       \* the call on the synth that the last step made
    built,      \* number of builder calls made
    crashed,    \* the last handler run did not return
    batch,      \* the vector get_events(t) returned to this tick
    pending,    \* the events of the vector the loop has not reached yet
    handled,    \* the events of the vector handed to handle_event, in order
    pressed     \* the notes whose key is down: a NoteOn was handled and no
                \* NoteOff since, the NoteOff of the last step not counted

vars ==
    <<synth, delivered, sent, calls, retriggered, stolen, last, sustained,
      pc, output, advanced, msgs, call, built, crashed, batch, pending,
      handled, pressed>>

Call(op, args) == [op |-> op, args |-> args]

Init ==
    /\ synth = New(NumVoices)
    /\ delivered = <<>>
    /\ sent = [v \in Voices |-> <<>>]
    /\ calls = <<>>
    /\ retriggered = FALSE
    /\ stolen = {}
    /\ last = NoEvent
    /\ sustained = {}
    /\ pc = "new"
    /\ output = Zero
    /\ advanced = <<>>
    /\ msgs = 0
    /\ call = Call("new", <<NumVoices>>)
    /\ built = 0
    /\ crashed = FALSE
    /\ batch = <<>>
    /\ pending = <<>>
    /\ handled = <<>>
    /\ pressed = {}

\* the voices still sustained when a step starts: a pedal release handled
\* by the step before has let them go
Sustained == IF last = SustainPedal(0) THEN {} ELSE sustained

\* the notes whose key is down when a step starts: a NoteOff handled by
\* the step before has lifted its key
Pressed == IF last.type = "NoteOff" THEN pressed \ {last.d1} ELSE pressed

\* the voices a run sustains: handed a NoteOff while their pedal was down
NewlySustained(r, e) ==
    IF e.type = "NoteOff"
    THEN {v \in Voices : /\ \E i \in 1 .. Len(r.delivered) : r.delivered[i] = v
                         /\ synth.voices[v].sustain_held}
    ELSE {}

\* the effect of one handler run on the state
Ran(r, e) ==
    /\ synth' = r.synth
    /\ delivered' = r.delivered
    /\ sent' = r.sent
    /\ calls' = r.calls
    /\ retriggered' = r.retriggered
    /\ stolen' = r.stolen
    /\ last' = e
    /\ sustained' = Sustained \cup NewlySustained(r, e)
    /\ crashed' = r.overflow
    /\ pressed' = IF e.type = "NoteOn" THEN Pressed \cup {e.d1} ELSE Pressed

\* a step that runs no handler
Quiet ==
    /\ delivered' = <<>>
    /\ sent' = [v \in Voices |-> <<>>]
    /\ calls' = <<>>
    /\ retriggered' = FALSE
    /\ stolen' = {}
    /\ last' = NoEvent
    /\ sustained' = Sustained
    /\ crashed' = crashed
    /\ pressed' = Pressed

(* ------------------------------ the tick ------------------------------ *)
\* SubtractiveSynthVoice::tick: the units it ticks, in order
VoiceTick(v) == <<<<"osc1", v>>, <<"osc2", v>>, <<"adsr", v>>>>

\* for voice in self.voices.iter_mut() { voice_out += voice.tick(..) }
RECURSIVE TickVoices(_)
TickVoices(n) == IF n = 0 THEN <<>> ELSE TickVoices(n - 1) \o VoiceTick(n)

DspTick_SelectedFilterOnly(s) ==
    LET lfo_out == Sample("lfo", TRUE, 1000)
        voice_out == Sample("voices", lfo_out.fresh, 1000)
        first == s.filter = "FirstOrder"
        first_out == IF first
                     THEN Sample("first_filter", voice_out.fresh, voice_out.scale)
                     ELSE s.first_filter.out
        second_out == IF first THEN s.second_filter.out
                      ELSE Sample("second_filter", voice_out.fresh, voice_out.scale)
        in0 == IF first THEN first_out ELSE second_out
    IN  [s EXCEPT !.lfo.out = lfo_out,
                  !.first_filter.inp = IF first THEN voice_out ELSE @,
                  !.second_filter.inp = IF first THEN @ ELSE voice_out,
                  !.first_filter.out = first_out,
                  !.second_filter.out = second_out,
                  !.tremolo.inp0 = in0,
                  !.tremolo.inp1 = lfo_out,
                  !.tremolo.out = Sample(in0.src, in0.fresh /\ lfo_out.fresh, in0.scale)]

\* tick, after the events: the LFO, the voices, both filters, the tremolo
DspTick(s) ==
    LET lfo_out == Sample("lfo", TRUE, 1000)
        voice_out == Sample("voices", lfo_out.fresh, 1000)
        first_out == Sample("first_filter", voice_out.fresh, voice_out.scale)
        second_out == Sample("second_filter", voice_out.fresh, voice_out.scale)
        in0 == IF s.filter = "FirstOrder" THEN first_out ELSE second_out
    IN  [s EXCEPT !.lfo.out = lfo_out,
                  !.first_filter.inp = voice_out,
                  !.second_filter.inp = voice_out,
                  !.first_filter.out = first_out,
                  !.second_filter.out = second_out,
                  !.tremolo.inp0 = in0,
                  !.tremolo.inp1 = lfo_out,
                  !.tremolo.out = Sample(in0.src, in0.fresh /\ lfo_out.fresh, in0.scale)]

DspOrder_EnvelopeFirst(s) ==
    <<<<"lfo", 0>>>>
       \o <<<<"adsr", 1>>, <<"osc1", 1>>, <<"osc2", 1>>>>
       \o SubSeq(TickVoices(Len(s.voices)), 4, 3 * Len(s.voices))
       \o <<<<"first_filter", 0>>, <<"second_filter", 0>>, <<"tremolo", 0>>>>

\* the order in which tick ticks the units; a unit is named with the voice
\* that owns it, 0 for the units of the synth itself
DspOrder(s) ==
    <<<<"lfo", 0>>>> \o TickVoices(Len(s.voices))
       \o <<<<"first_filter", 0>>, <<"second_filter", 0>>, <<"tremolo", 0>>>>

\* the samples the units hold from earlier ticks
Aged(s) ==
    [s EXCEPT !.lfo.out = Stale(@),
              !.first_filter.inp = Stale(@),
              !.first_filter.out = Stale(@),
              !.second_filter.inp = Stale(@),
              !.second_filter.out = Stale(@),
              !.tremolo.inp0 = Stale(@),
              !.tremolo.inp1 = Stale(@),
              !.tremolo.out = Stale(@)]

(* ------------------------------ actions ------------------------------- *)
\* SubtractiveSynth::control_map(map), a builder call
ControlMap(f) ==
    /\ pc = "new"
    /\ ~crashed
    /\ synth.controls = "None"
    /\ synth' = [synth EXCEPT !.controls = f]
    /\ call' = Call("control_map", <<f>>)
    /\ Quiet
    /\ UNCHANGED <<pc, output, advanced, msgs, built, batch, pending, handled>>

\* a caller's handle_message(msg), between ticks
ReceiveMessage(m) ==
    /\ pc \in {"new", "idle"}
    /\ ~crashed
    /\ msgs < MaxMsgs
    /\ \E pick \in PickChoices(synth, m.ev) :
          Ran(HandleMessage(Run(synth), m, pick), m.ev)
    /\ msgs' = msgs + 1
    /\ call' = Call("handle_message", <<m>>)
    /\ UNCHANGED <<pc, output, advanced, built, batch, pending, handled>>

\* tick starts: self.midi.get_events(t).  The vector is read one event at
\* a time, so the model draws each event when the loop reaches it.
GetEvents ==
    /\ pc \in {"new", "idle"}
    /\ ~crashed
    /\ pc' = "events"
    /\ advanced' = <<>>
    /\ synth' = Aged(synth)
    /\ call' = Call("tick", <<>>)
    /\ Quiet
    /\ UNCHANGED <<output, msgs, built, batch, pending, handled>>

\* tick: self.handle_event(event), for the next event of the vector
Dispatch(e) ==
    /\ pc = "events"
    /\ ~crashed
    /\ batch = <<>>
    /\ \E pick \in PickChoices(synth, e) :
          Ran(HandleEvent(Run(synth), e, pick), e)
    /\ call' = Call("tick", <<>>)
    /\ UNCHANGED <<pc, output, advanced, msgs, built, batch, pending, handled>>

\* tick, the vector exhausted: the units tick and the sample is written,
\* outputs[0] = self.gain * self.tremolo.outputs[0]
Advance ==
    /\ pc = "events"
    /\ ~crashed
    /\ pending = <<>>
    /\ synth' = DspTick(synth)
    /\ advanced' = DspOrder(synth)
    /\ output' = [DspTick(synth).tremolo.out EXCEPT
                      !.scale = (@ * synth.gain) \div 1000]
    /\ pc' = "idle"
    /\ call' = Call("tick", <<>>)
    /\ Quiet
    /\ UNCHANGED <<msgs, built, batch, pending, handled>>

\* a performance: no control map, no parameter change
Next ==
    \/ \E m \in PlayedMessages : ReceiveMessage(m)
    \/ GetEvents
    \/ \E e \in PlayedEvents : Dispatch(e)
    \/ Advance

Spec == Init /\ [][Next]_vars

\* a knob session: parameter messages and controller events
NextControl ==
    \/ \E f \in ControlMaps : ControlMap(f)
    \/ \E m \in ControlMessages : ReceiveMessage(m)
    \/ GetEvents
    \/ \E e \in ControlEvents : Dispatch(e)
    \/ Advance

SpecControl == Init /\ [][NextControl]_vars

\* a builder call op(args) on the new synth, which leaves it as s
BuilderCall(op, args, s) ==
    /\ pc = "new"
    /\ ~crashed
    /\ built < MaxBuilt
    /\ synth' = s
    /\ built' = built + 1
    /\ call' = Call(op, args)
    /\ Quiet
    /\ UNCHANGED <<pc, output, advanced, msgs, batch, pending, handled>>

BuildGain(db) == BuilderCall("gain", <<db>>, gain(synth, db))
BuildOsc1(w) == BuilderCall("osc1", <<w>>, osc1(synth, w))
BuildOsc2(w) == BuilderCall("osc2", <<w>>, osc2(synth, w))
BuildOsc1Transpose(x) ==
    BuilderCall("osc1_transpose", <<x>>, osc1_transpose(synth, x))
BuildOsc2Transpose(x) ==
    BuilderCall("osc2_transpose", <<x>>, osc2_transpose(synth, x))
BuildAdsr(a) == BuilderCall("adsr", a, adsr(synth, a[1], a[2], a[3], a[4]))
BuildLfo(x) == BuilderCall("lfo", <<x>>, lfo(synth, x))
BuildVibrato(x) == BuilderCall("vibrato", <<x>>, vibrato(synth, x))
BuildTremolo(x) == BuilderCall("tremolo", <<x>>, tremolo(synth, x))
BuildFirstOrder(m) == BuilderCall("first_order", <<m>>, first_order(synth, m))
BuildSecondOrder(m) ==
    BuilderCall("second_order", <<m>>, second_order(synth, m))

\* a program that builds the synth, starts it and turns its parameters
NextBuild ==
    \/ \E x \in BuiltGains : BuildGain(x)
    \/ \E w \in BuiltWaveforms : BuildOsc1(w)
    \/ \E w \in BuiltWaveforms : BuildOsc2(w)
    \/ \E x \in BuiltSteps : BuildOsc1Transpose(x)
    \/ \E x \in BuiltSteps : BuildOsc2Transpose(x)
    \/ \E a \in BuiltEnvelopes : BuildAdsr(a)
    \/ \E x \in BuiltFreqs : BuildLfo(x)
    \/ \E x \in BuiltIntensities : BuildVibrato(x)
    \/ \E x \in BuiltIntensities : BuildTremolo(x)
    \/ \E m \in BuiltFirstModes : BuildFirstOrder(m)
    \/ \E m \in BuiltSecondModes : BuildSecondOrder(m)
    \/ \E m \in ParameterMessages : ReceiveMessage(m)
    \/ GetEvents
    \/ Advance

SpecBuild == Init /\ [][NextBuild]_vars

\* the events of a tick whose vector the model spells out
QueuedEvents == {NoteOn(60), NoteOff(60), PitchBend(1), PitchBend(0)}

\* the vectors get_events(t) may return
RECURSIVE VectorsOfLength(_)
VectorsOfLength(n) ==
    IF n = 0 THEN {<<>>}
    ELSE {Append(b, e) : b \in VectorsOfLength(n - 1), e \in QueuedEvents}

EventVectors == UNION {VectorsOfLength(n) : n \in 0 .. MaxBatch}

\* tick starts: self.midi.get_events(t) returns the vector b
GetEventVector(b) ==
    /\ pc \in {"new", "idle"}
    /\ ~crashed
    /\ pc' = "events"
    /\ advanced' = <<>>
    /\ synth' = Aged(synth)
    /\ batch' = b
    /\ pending' = b
    /\ handled' = <<>>
    /\ call' = Call("tick", <<>>)
    /\ Quiet
    /\ UNCHANGED <<output, msgs, built>>

DispatchNext_SkipsOne ==
    /\ pc = "events"
    /\ ~crashed
    /\ pending # <<>>
    /\ LET e == Head(pending)
       IN  /\ \E pick \in PickChoices(synth, e) :
                 Ran(HandleEvent(Run(synth), e, pick), e)
           /\ handled' = Append(handled, e)
    /\ pending' = IF Len(pending) > 1 THEN Tail(Tail(pending)) ELSE <<>>
    /\ call' = Call("tick", <<>>)
    /\ UNCHANGED <<pc, output, advanced, msgs, built, batch>>

\* tick: for event in the vector { self.handle_event(event) }, one turn of
\* the loop
DispatchNext ==
    /\ pc = "events"
    /\ ~crashed
    /\ pending # <<>>
    /\ LET e == Head(pending)
       IN  /\ \E pick \in PickChoices(synth, e) :
                 Ran(HandleEvent(Run(synth), e, pick), e)
           /\ handled' = Append(handled, e)
    /\ pending' = Tail(pending)
    /\ call' = Call("tick", <<>>)
    /\ UNCHANGED <<pc, output, advanced, msgs, built, batch>>

\* ticks whose event vectors are spelled out
NextQueue ==
    \/ \E b \in EventVectors : GetEventVector(b)
    \/ DispatchNext
    \/ Advance

SpecQueue == Init /\ [][NextQueue]_vars

\* the events of a session with the relaying control map
RelayEvents ==
    {ControlChange(1, MidiMax), ControlChange(2, MidiMax),
     ControlChange(64, MidiMax), ControlChange(64, 0),
     NoteOn(60), NoteOff(60), NoteOn(61), NoteOff(61),
     SustainPedal(1), SustainPedal(0), PitchBend(1)}

\* a session with a control map that answers with MIDI events
NextRelay ==
    \/ \E f \in RelayMaps : ControlMap(f)
    \/ \E e \in RelayEvents : ReceiveMessage(SendMidiEvent(e))
    \/ GetEvents
    \/ \E e \in RelayEvents : Dispatch(e)
    \/ Advance

SpecRelay == Init /\ [][NextRelay]_vars

(* ------------------------------ properties ---------------------------- *)
key_held(v) == synth.voices[v].key_held
sustain_held(v) == synth.voices[v].sustain_held
gate(v) == synth.voices[v].adsr.gate
Silent == [v \in Voices |-> <<>>]

\* a NoteOff handed to a voice whose pedal is down lifts the key and sends
\* nothing to the envelope
KeyUpUnderPedal ==
    \A n \in Notes :
        LET v == synth.pool[n]
        IN  (last' = NoteOff(n) /\ v # 0 /\ sustain_held(v))
              => /\ ~synth'.voices[v].key_held
                 /\ sent'[v] = <<>>
                 /\ synth'.voices[v].adsr.gate = gate(v)

\* C1 as claimed: a NoteOff under the pedal lifts the key without NoteUp,
\* and the next SustainPedal(false) sends NoteUp to that voice.
C1_NextPedalReleaseAlwaysReleases ==
    [][/\ KeyUpUnderPedal
       /\ last' = SustainPedal(0)
            => \A v \in Sustained : sent'[v] = <<"NoteUp">>]_vars

\* C1 amended: a NoteOff under the pedal lifts the key without NoteUp, and
\* the next SustainPedal(false) sends NoteUp to that voice unless its key
\* has gone down again in between.
C1_SustainHold ==
    [][/\ KeyUpUnderPedal
       /\ last' = SustainPedal(0)
            => \A v \in Sustained :
                   ~key_held(v) => /\ sent'[v] = <<"NoteUp">>
                                   /\ synth'.voices[v].adsr.gate = "up"]_vars

C1_Witness ==
    /\ last = SustainPedal(0)
    /\ \E v \in sustained :
          /\ sent[v] = <<"NoteUp">>
          /\ gate(v) = "up"
          /\ synth.voices[v].osc1.freq # Unset

\* C2: a SustainPedal(false) sends no NoteUp to a voice whose key is down
\* and leaves its key down; a voice whose key is down gets a NoteUp only
\* from the NoteOff of the note bound to it.
C2_PedalReleaseKeepsHeldKeys ==
    [][\A v \in Voices :
          key_held(v) =>
            /\ last' = SustainPedal(0)
                 => /\ sent'[v] = <<>>
                    /\ synth'.voices[v].key_held
                    /\ synth'.voices[v].adsr.gate = gate(v)
            /\ sent'[v] # <<>> /\ sent'[v] # <<"NoteDown">>
                 => /\ last'.type = "NoteOff"
                    /\ synth.pool[last'.d1] = v]_vars

C2_Witness ==
    /\ last = SustainPedal(0)
    /\ \E v \in Voices :
          /\ key_held(v)
          /\ gate(v) = "down"
          /\ sent[v] = <<>>
          /\ v \in sustained

\* C3 as claimed: a voice whose envelope is not gated on has its key up and
\* its pedal up.
C3_SilentOnlyWhenKeyAndPedalUp ==
    \A v \in Voices :
        gate(v) # "down" => ~key_held(v) /\ ~sustain_held(v)

\* C3 amended: a voice whose envelope is not gated on has its key up;
\* whenever key_held is true the voice is gated on.
C3_SilentOnlyWhenKeyUp ==
    \A v \in Voices : gate(v) # "down" => ~key_held(v)

C3_Witness ==
    \E v, w \in Voices :
        /\ key_held(v) /\ gate(v) = "down"
        /\ ~key_held(w) /\ sustain_held(w) /\ gate(w) = "up"

HeldNotes == {n \in Notes : synth.pool[n] # 0}

\* C4: every NoteOn reaches exactly one voice, which takes the note, its
\* frequency and a NoteDown; when every voice is bound to another note one
\* of them is stolen; at most N notes are bound at any time.
C4_NoteOnNeverDropped ==
    /\ [](Cardinality(HeldNotes) <= NumVoices)
    /\ [][\A n \in Notes :
             last' = NoteOn(n) =>
               \E v \in Voices :
                  /\ delivered' = <<v>>
                  /\ synth'.pool[n] = v
                  /\ synth'.voices[v].key_held
                  /\ synth'.voices[v].osc1.freq = midi_note_to_freq(n)
                  /\ synth'.voices[v].osc2.freq = midi_note_to_freq(n)
                  /\ synth'.voices[v].adsr.gate = "down"
                  /\ sent'[v] = <<"NoteDown">>
                  /\ (synth.pool[n] = 0 /\ BoundVoices(synth.pool) = Voices)
                       => \E m \in Notes \ {n} :
                             synth.pool[m] = v /\ synth'.pool[m] = 0]_vars

C4_Witness ==
    /\ last.type = "NoteOn"
    /\ stolen # {}
    /\ \E v \in Voices :
          /\ delivered = <<v>>
          /\ synth.pool[last.d1] = v
          /\ sent[v] = <<"NoteDown">>
    /\ Cardinality(HeldNotes) = NumVoices

\* C5: a NoteOn for a note that is held goes to the voice that holds it,
\* and to no other; the binding and the number of bound voices stay.
C5_RetriggerReusesVoice ==
    [][\A n \in Notes :
          (last' = NoteOn(n) /\ synth.pool[n] # 0) =>
             /\ delivered' = <<synth.pool[n]>>
             /\ sent'[synth.pool[n]] = <<"NoteDown">>
             /\ synth'.pool = synth.pool
             /\ Cardinality(BoundVoices(synth'.pool))
                  <= Cardinality(BoundVoices(synth.pool))]_vars

C5_Witness ==
    /\ last.type = "NoteOn"
    /\ retriggered
    /\ delivered = <<synth.pool[last.d1]>>
    /\ Cardinality(BoundVoices(synth.pool)) < NumVoices

\* C6: the synth has exactly N voices, and the binding is injective: a
\* note is bound to one voice of the pool or to none, a voice to at most
\* one note.
C6_PoolIsInjective ==
    /\ Len(synth.voices) = NumVoices
    /\ \A n \in Notes : synth.pool[n] \in 0 .. Len(synth.voices)
    /\ \A n, m \in Notes :
          (synth.pool[n] # 0 /\ synth.pool[n] = synth.pool[m]) => n = m

C6_Witness ==
    /\ stolen # {}
    /\ BoundVoices(synth.pool) = Voices
    /\ Cardinality(HeldNotes) = NumVoices

\* C7: a NoteOff for a note that is not held reaches no voice and changes
\* nothing in the synth.
C7_StrayNoteOffIsNoOp ==
    [][\A n \in Notes :
          (last' = NoteOff(n) /\ synth.pool[n] = 0) =>
             /\ synth' = synth
             /\ delivered' = <<>>
             /\ sent' = Silent]_vars

C7_Witness ==
    /\ last.type = "NoteOff"
    /\ delivered = <<>>
    /\ \E v \in Voices : key_held(v) /\ synth.voices[v].osc1.freq # midi_note_to_freq(last.d1)
    /\ \E v \in Voices : ~key_held(v) /\ synth.voices[v].osc1.freq = midi_note_to_freq(last.d1)

NoNoteHeld == HeldNotes = {}

\* C8 as claimed: a pedal event while no note is held changes no voice and
\* sends nothing to any envelope.
C8_PedalWithoutNotesIsNoOp ==
    [][(last'.type = "SustainPedal" /\ NoNoteHeld) =>
          /\ synth'.voices = synth.voices
          /\ sent' = Silent]_vars

\* C8 amended: a pedal event while no note is held changes only the pedal
\* state: every voice takes the pedal value as sustain_held; a pedal press
\* sends nothing to the envelopes, a pedal release sends NoteUp to every
\* voice; keys, binding, oscillators and parameters stay.
C8_PedalWithoutNotesOnlySetsPedal ==
    [][(last'.type = "SustainPedal" /\ NoNoteHeld) =>
          /\ synth' = [synth EXCEPT !.voices =
                 [v \in Voices |->
                     [synth.voices[v] EXCEPT
                         !.sustain_held = (last'.d1 = 1),
                         !.adsr.gate = IF last'.d1 = 0 THEN "up" ELSE @]]]
          /\ \A v \in Voices :
                sent'[v] = IF last'.d1 = 0 THEN <<"NoteUp">> ELSE <<>>]_vars

C8_Witness ==
    /\ last = SustainPedal(0)
    /\ NoNoteHeld
    /\ \A v \in Voices : sent[v] = <<"NoteUp">> /\ ~sustain_held(v)
    /\ sustained # {}

\* the synth without the samples its units hold: every parameter, every
\* voice's flags and settings, the binding and the control map
Parameters(s) ==
    [s EXCEPT !.lfo.out = Zero,
              !.first_filter.inp = Zero,
              !.first_filter.out = Zero,
              !.second_filter.inp = Zero,
              !.second_filter.out = Zero,
              !.tremolo.inp0 = Zero,
              !.tremolo.inp1 = Zero,
              !.tremolo.out = Zero]

\* C9: without a control map a ControlChange calls nothing, reaches no
\* voice and leaves the synth as it is, and the ticks around it change no
\* parameter and no voice flag.
C9_NoMapIgnoresControlChange ==
    [][synth.controls = "None" =>
          /\ last'.type = "ControlChange"
               => /\ synth' = synth
                  /\ calls' = <<>>
                  /\ delivered' = <<>>
                  /\ sent' = Silent
          /\ (last'.type = "ControlChange" \/ pc' # pc)
               => Parameters(synth') = Parameters(synth)]_vars

C9_Witness ==
    /\ last.type = "ControlChange"
    /\ synth.controls = "None"
    /\ pc = "events"
    /\ output # Zero
    /\ \E v \in Voices : key_held(v)

\* C10: with a control map a ControlChange(controller, value) calls the
\* map once, with (controller, value); a message it returns is applied by
\* handle_message in the same step, which inside a tick comes before any
\* unit of that tick has advanced; if it returns None the synth stays.
C10_MapResultAppliedAtOnce ==
    [][\A c \in Controllers, x \in ControlValues :
          (last' = ControlChange(c, x) /\ synth.controls # "None") =>
             LET msg == CallMap(synth.controls, c, x)
             IN  /\ calls' = <<<<c, x>>>>
                 /\ msg = NoMsg => synth' = synth
                 /\ msg # NoMsg => synth' = HandleMessage(Run(synth), msg, 1).synth
                 /\ pc = "events"
                      => /\ pc' = "events"
                         /\ advanced = <<>> /\ advanced' = <<>>
                         /\ ~synth'.lfo.out.fresh
                         /\ ~synth'.first_filter.out.fresh
                         /\ ~synth'.second_filter.out.fresh
                         /\ ~synth'.tremolo.out.fresh]_vars

C10_Witness ==
    /\ last = ControlChange(22, MidiMax)
    /\ synth.controls = "qx49_controls"
    /\ calls = <<<<22, MidiMax>>>>
    /\ pc = "events"
    /\ advanced = <<>>
    /\ \A v \in Voices : synth.voices[v].adsr.attack = 5 * MidiMax

\* the filter-family message a call applies, NoMsg if it applies none
FilterMessage(c) ==
    CASE c.op = "first_order" -> SetFilterFirstOrder(c.args[1])
      [] c.op = "second_order" -> SetFilterSecondOrder(c.args[1])
      [] c.op = "handle_message" ->
           IF c.args[1].msg \in {"SetFilterFirstOrder", "SetFilterSecondOrder"}
           THEN c.args[1] ELSE NoMsg
      [] OTHER -> NoMsg

\* C11: one filter family is selected at any time, FirstOrder on the new
\* synth; a SetFilterFirstOrder or SetFilterSecondOrder message selects its
\* family and sets the mode of that filter in the same step, leaving the
\* mode of the other filter alone; no other step changes the selection or a
\* mode, so the selection is the family of the most recent such message.
C11_FilterSelection ==
    [][LET m == FilterMessage(call')
       IN  /\ call.op = "new" => synth.filter = "FirstOrder"
           /\ synth'.filter \in {"FirstOrder", "SecondOrder"}
           /\ m.msg = "SetFilterFirstOrder"
                => /\ synth'.filter = "FirstOrder"
                   /\ synth'.first_filter.mode = m.mode
                   /\ synth'.second_filter.mode = synth.second_filter.mode
           /\ m.msg = "SetFilterSecondOrder"
                => /\ synth'.filter = "SecondOrder"
                   /\ synth'.second_filter.mode = m.mode
                   /\ synth'.first_filter.mode = synth.first_filter.mode
           /\ m = NoMsg
                => /\ synth'.filter = synth.filter
                   /\ synth'.first_filter.mode = synth.first_filter.mode
                   /\ synth'.second_filter.mode = synth.second_filter.mode]_vars

\* the first-order family selected again by a message, after the builder
\* had selected the second-order family, whose mode is kept
C11_Witness ==
    /\ call = Call("handle_message", <<SetFilterFirstOrder(HighPass(500))>>)
    /\ synth.filter = "FirstOrder"
    /\ synth.first_filter.mode = HighPass(500)
    /\ synth.second_filter.mode = HighPass(300)

\* a step that is the sample-producing part of tick
Ticked == pc = "events" /\ pc' = "idle"

\* how often a tick advanced the unit
Advances(log, unit) == Cardinality({i \in 1 .. Len(log) : log[i] = unit})

\* the output of the filter the synth has selected
SelectedOutput(s) ==
    IF s.filter = "FirstOrder" THEN s.first_filter.out ELSE s.second_filter.out

\* C12: on every tick both filters advance exactly once, on the same input,
\* the voice sum of this tick, whichever is selected; the first input of
\* the tremolo is this tick's output of the filter that is selected when
\* the tick runs, so the first tick after a filter-family message routes
\* the newly selected filter.
C12_BothFiltersRunSelectedIsRouted ==
    [][Ticked =>
         /\ Advances(advanced', <<"first_filter", 0>>) = 1
         /\ Advances(advanced', <<"second_filter", 0>>) = 1
         /\ synth'.first_filter.inp = synth'.second_filter.inp
         /\ synth'.first_filter.inp = Sample("voices", TRUE, 1000)
         /\ synth'.first_filter.out.fresh /\ synth'.second_filter.out.fresh
         /\ synth'.first_filter.out.src = "first_filter"
         /\ synth'.second_filter.out.src = "second_filter"
         /\ synth'.filter = synth.filter
         /\ synth'.tremolo.inp0 = SelectedOutput(synth')
         /\ synth'.tremolo.inp0.fresh]_vars

\* a tick that follows a switch to the second-order family: its output is
\* the tremolo's input, and the first-order filter has run as well
C12_Witness ==
    /\ pc = "idle"
    /\ synth.filter = "SecondOrder"
    /\ synth.second_filter.mode = LowPass(1000)
    /\ synth.tremolo.inp0 = Sample("second_filter", TRUE, 1000)
    /\ synth.first_filter.out = Sample("first_filter", TRUE, 1000)
    /\ msgs = 1

\* the units a tick has to advance
Units ==
    {<<"lfo", 0>>, <<"first_filter", 0>>, <<"second_filter", 0>>,
     <<"tremolo", 0>>}
      \cup {<<u, v>> : u \in {"osc1", "osc2", "adsr"}, v \in Voices}

\* where a tick's log has the unit
Pos(log, unit) == CHOOSE i \in 1 .. Len(log) : log[i] = unit

\* C13: a tick runs its stages in a fixed order: the events are handled
\* before any unit advances; then the LFO, every voice (held or not) with
\* both oscillators before the envelope, the two filters, the tremolo, and
\* the output sample, the tremolo's output of this tick scaled by the
\* gain; every unit advances exactly once per tick.
C13_TickOrder ==
    [][/\ (pc = "events" /\ last' # NoEvent)
            => advanced = <<>> /\ advanced' = <<>> /\ pc' = "events"
       /\ Ticked =>
            LET log == advanced'
            IN  /\ advanced = <<>>
                /\ \A u \in Units : Advances(log, u) = 1
                /\ Len(log) = Cardinality(Units)
                /\ \A v \in Voices :
                     /\ Pos(log, <<"lfo", 0>>) < Pos(log, <<"osc1", v>>)
                     /\ Pos(log, <<"lfo", 0>>) < Pos(log, <<"osc2", v>>)
                     /\ Pos(log, <<"osc1", v>>) < Pos(log, <<"adsr", v>>)
                     /\ Pos(log, <<"osc2", v>>) < Pos(log, <<"adsr", v>>)
                     /\ Pos(log, <<"adsr", v>>) < Pos(log, <<"first_filter", 0>>)
                     /\ Pos(log, <<"adsr", v>>) < Pos(log, <<"second_filter", 0>>)
                /\ Pos(log, <<"first_filter", 0>>) < Pos(log, <<"tremolo", 0>>)
                /\ Pos(log, <<"second_filter", 0>>) < Pos(log, <<"tremolo", 0>>)
                /\ synth'.lfo.out = Sample("lfo", TRUE, 1000)
                /\ synth'.first_filter.inp = Sample("voices", TRUE, 1000)
                /\ synth'.tremolo.inp0 = SelectedOutput(synth')
                /\ synth'.tremolo.inp1 = synth'.lfo.out
                /\ synth'.tremolo.out.fresh
                /\ output' = [synth'.tremolo.out EXCEPT
                                 !.scale = (@ * synth.gain) \div 1000]]_vars

\* a tick that handled events and then advanced every unit, with one voice
\* held and another never played
C13_Witness ==
    /\ pc = "idle"
    /\ Len(advanced) = Cardinality(Units)
    /\ output.fresh
    /\ \E v, w \in Voices : /\ key_held(v) /\ gate(v) = "down"
                            /\ ~key_held(w) /\ gate(w) = "never"

\* C14, as claimed: on every tick the voice sum is scaled by 1/N before it
\* is fed to the two filters, and the gain is a separate factor on the
\* tremolo's output, so that the 1/N scaling outlives a SetGain message.
\* The code feeds the sum as it is and keeps 1/N only as the first value of
\* the gain, which SetGain replaces.
C14_SumScaledBeforeFilters ==
    [][Ticked =>
         /\ synth'.first_filter.inp.scale = 1000 \div NumVoices
         /\ synth'.second_filter.inp.scale = 1000 \div NumVoices
         /\ output'.scale = (synth'.tremolo.out.scale * synth.gain) \div 1000]_vars

\* the parameters of a voice that messages set
VoiceParameters(vc) ==
    <<vc.osc1.waveform, vc.osc1.transpose, vc.osc1.lfo_intensity,
      vc.osc2.waveform, vc.osc2.transpose, vc.osc2.lfo_intensity,
      vc.adsr.attack, vc.adsr.decay, vc.adsr.sustain, vc.adsr.release>>

\* C15: the voices never differ in a parameter: in every state, so whenever
\* the voices advance, all N voices have the same waveform and transpose of
\* either oscillator, the same attack, decay, sustain and release, and the
\* same vibrato depth.
C15_VoicesShareParameters ==
    \A v, w \in Voices :
        VoiceParameters(synth.voices[v]) = VoiceParameters(synth.voices[w])

\* a tick after an attack time was set: every voice has it
C15_Witness ==
    /\ pc = "idle"
    /\ advanced # <<>>
    /\ \A v \in Voices : synth.voices[v].adsr.attack # Unset

\* C16: a SustainPedal or PitchBend event is handed to every one of the N
\* voices, bound to a note or not, once each; PitchBend(value) leaves both
\* oscillators of every voice with one and the same bend; neither event
\* changes which voice holds which note.
C16_PedalAndBendReachEveryVoice ==
    [][last'.type \in {"SustainPedal", "PitchBend"} =>
         /\ delivered' = [v \in Voices |-> v]
         /\ synth'.pool = synth.pool
         /\ last'.type = "PitchBend" =>
              \A v \in Voices :
                  /\ synth'.voices[v].osc1.bend = 2 * last'.d1
                  /\ synth'.voices[v].osc2.bend = 2 * last'.d1]_vars

\* a bend handled while one voice holds a note and another holds none
C16_Witness ==
    /\ last = PitchBend(1)
    /\ delivered = [v \in Voices |-> v]
    /\ \E v, w \in Voices : /\ v \in BoundVoices(synth.pool)
                            /\ w \notin BoundVoices(synth.pool)
                            /\ synth.voices[v].osc2.bend = 2
                            /\ synth.voices[w].osc1.bend = 2

\* the synth with the bend of every oscillator at 0 and all else as it is
Unbent(s) ==
    [s EXCEPT !.voices =
        [v \in DOMAIN s.voices |->
            [s.voices[v] EXCEPT !.osc1.bend = 0, !.osc2.bend = 0]]]

\* the synth after PitchBend(x) and then PitchBend(0)
BentAndBack(s, x) ==
    LET there == HandleEvent(Run(s), PitchBend(x), 1)
    IN  HandleEvent(Run(there.synth), PitchBend(0), 1).synth

\* C17: pitch-bend round trip: from every state and for every bend value,
\* PitchBend(v) followed by PitchBend(0) leaves both oscillators of every
\* voice with bend 0 and changes nothing else: the note frequency and the
\* transpose are the ones from before the bend.
C17_PitchBendRoundTrip ==
    /\ [](\A x \in BendValues : BentAndBack(synth, x) = Unbent(synth))
    /\ [][/\ last'.type = "PitchBend"
             => /\ Unbent(synth') = Unbent(synth)
                /\ \A v \in Voices :
                     /\ synth'.voices[v].osc1.freq = synth.voices[v].osc1.freq
                     /\ synth'.voices[v].osc2.freq = synth.voices[v].osc2.freq
                     /\ synth'.voices[v].osc1.transpose
                          = synth.voices[v].osc1.transpose
                     /\ synth'.voices[v].osc2.transpose
                          = synth.voices[v].osc2.transpose
          /\ last' = PitchBend(0) => synth' = Unbent(synth)]_vars

\* a held note bent and brought back within one tick
C17_Witness ==
    /\ handled = <<PitchBend(1), PitchBend(0)>>
    /\ \E v \in Voices : /\ key_held(v)
                         /\ synth.voices[v].osc1.freq = midi_note_to_freq(60)
    /\ \A v \in Voices : /\ synth.voices[v].osc1.bend = 0
                         /\ synth.voices[v].osc2.bend = 0

\* C19: every event the source delivers for a tick is handed to
\* handle_event exactly once, during that tick and in the order of the
\* vector: each dispatch takes the first event not yet reached, the units
\* advance only when the events handled are the whole vector, and a tick
\* starts with nothing but its own vector, so no event is handled again in
\* a later tick.
C19_EachEventOnceInOrder ==
    [][/\ handled' \o pending' = batch'
       /\ last' # NoEvent
            => /\ pc = "events" /\ pc' = "events"
               /\ pending # <<>>
               /\ last' = Head(pending)
               /\ pending' = Tail(pending)
               /\ handled' = Append(handled, last')
               /\ batch' = batch
       /\ Ticked
            => /\ pending = <<>>
               /\ handled = batch
               /\ last' = NoEvent
               /\ UNCHANGED <<batch, pending, handled>>
       /\ (pc # "events" /\ pc' = "events")
            => /\ handled' = <<>>
               /\ last' = NoEvent
       /\ (pc # "events" /\ pc' # "events") => last' = NoEvent]_vars

\* a tick that was given NoteOn(60) and then NoteOff(60) and handled them
\* in that order: the voice is released
C19_Witness ==
    /\ pc = "idle"
    /\ batch = <<NoteOn(60), NoteOff(60)>>
    /\ handled = batch
    /\ pending = <<>>
    /\ \E v \in Voices : gate(v) = "up" /\ ~key_held(v)

\* the messages a builder call stands for, in order
BuilderMessages(c) ==
    CASE c.op = "gain" -> <<SetGain(c.args[1])>>
      [] c.op = "osc1" -> <<SetOsc1(c.args[1])>>
      [] c.op = "osc2" -> <<SetOsc2(c.args[1])>>
      [] c.op = "osc1_transpose" -> <<SetOsc1Transpose(c.args[1])>>
      [] c.op = "osc2_transpose" -> <<SetOsc2Transpose(c.args[1])>>
      [] c.op = "adsr" -> <<SetAttack(c.args[1]), SetDecay(c.args[2]),
                            SetSustain(c.args[3]), SetRelease(c.args[4])>>
      [] c.op = "lfo" -> <<SetLFOFreq(c.args[1])>>
      [] c.op = "vibrato" -> <<SetVibrato(c.args[1])>>
      [] c.op = "tremolo" -> <<SetTremolo(c.args[1])>>
      [] c.op = "first_order" -> <<SetFilterFirstOrder(c.args[1])>>
      [] c.op = "second_order" -> <<SetFilterSecondOrder(c.args[1])>>
      [] c.op = "handle_message" -> c.args
      [] OTHER -> <<>>

\* the synth after handle_message was called with each message in turn
RECURSIVE ApplyAll(_, _)
ApplyAll(s, ms) ==
    IF ms = <<>> THEN s
    ELSE ApplyAll(HandleMessage(Run(s), Head(ms), 1).synth, Tail(ms))

BuilderOps ==
    {"gain", "osc1", "osc2", "osc1_transpose", "osc2_transpose", "adsr",
     "lfo", "vibrato", "tremolo", "first_order", "second_order"}

\* C18: a builder call is made before the first tick and leaves the synth
\* as the messages it stands for would, applied in order at run time
\* (gain = SetGain, adsr = SetAttack; SetDecay; SetSustain; SetRelease,
\* ...); the calls take effect in call order, so the last write to a field
\* wins: after first_order the first-order family is selected and after
\* second_order the second-order family, whatever was selected before.
C18_BuilderCallsAreMessages ==
    [][/\ call'.op \in BuilderOps
            => /\ pc = "new" /\ pc' = "new"
               /\ built' = built + 1
               /\ synth' = ApplyAll(synth, BuilderMessages(call'))
       /\ call'.op = "handle_message"
            => synth' = ApplyAll(synth, BuilderMessages(call'))
       /\ call'.op = "first_order" => synth'.filter = "FirstOrder"
       /\ call'.op = "second_order" => synth'.filter = "SecondOrder"
       /\ call'.op = "gain" => synth'.gain = decibel_to_ratio(call'.args[1])
       /\ call'.op = "adsr"
            => \A v \in Voices :
                 /\ synth'.voices[v].adsr.attack = call'.args[1]
                 /\ synth'.voices[v].adsr.decay = call'.args[2]
                 /\ synth'.voices[v].adsr.sustain = call'.args[3]
                 /\ synth'.voices[v].adsr.release = call'.args[4]]_vars

\* second_order(..).first_order(..): the first-order family is selected
\* and the second-order filter keeps the mode it was given
C18_Witness ==
    /\ call = Call("first_order", <<LowPass(800)>>)
    /\ built = 2
    /\ synth.filter = "FirstOrder"
    /\ synth.first_filter.mode = LowPass(800)
    /\ synth.second_filter.mode = HighPass(300)

\* C20, as claimed: handle_message returns for every message and every
\* control map, also for SendMidiEvent with a ControlChange that the map
\* answers with SendMidiEvent again; handling one event always ends.  It
\* does not for a map that answers a controller with a ControlChange of
\* the same controller: handle_event and handle_message then call each
\* other without end.
C20_HandleMessageAlwaysReturns == ~crashed

\* the notes whose key is down while another note has their voice
StolenNotes == {n \in Pressed : synth.pool[n] = 0}

\* C21: the NoteOff of a note whose voice was stolen reaches no voice and
\* changes nothing: every voice that holds a note keeps the note and keeps
\* key_held; a voice is sent NoteUp only by the NoteOff of the note it
\* holds or by a pedal release.
C21_LateNoteOffSparesTheThief ==
    [][/\ \A a \in Notes :
            (last' = NoteOff(a) /\ a \in StolenNotes)
              => /\ synth' = synth
                 /\ delivered' = <<>>
                 /\ sent' = Silent
                 /\ \A b \in HeldNotes :
                       /\ synth'.pool[b] = synth.pool[b]
                       /\ synth'.voices[synth.pool[b]].key_held
       /\ \A v \in Voices :
            sent'[v] = <<"NoteUp">>
              => \/ last'.type = "NoteOff" /\ synth.pool[last'.d1] = v
                 \/ last' = SustainPedal(0)]_vars

\* the NoteOff of a stolen note, handled while every voice plays another
\* note
C21_Witness ==
    /\ last.type = "NoteOff"
    /\ last.d1 \in pressed
    /\ synth.pool[last.d1] = 0
    /\ delivered = <<>>
    /\ BoundVoices(synth.pool) = Voices
    /\ \A v \in Voices : key_held(v) /\ gate(v) = "down"

\* C22: a NoteOn changes one voice only, the one the pool returns: its
\* key_held becomes true, both its oscillators get the note's frequency
\* and its envelope a NoteDown, its sustain_held and all else in it stay;
\* no other voice changes or is sent anything, and nothing of the synth
\* but the pool's binding changes.
C22_NoteOnChangesOneVoice ==
    [][\A n \in Notes :
          last' = NoteOn(n) =>
             \E v \in Voices :
                /\ delivered' = <<v>>
                /\ synth'.voices[v] =
                      [synth.voices[v] EXCEPT
                          !.key_held = TRUE,
                          !.osc1.freq = midi_note_to_freq(n),
                          !.osc2.freq = midi_note_to_freq(n),
                          !.adsr.gate = "down"]
                /\ synth'.voices[v].sustain_held = synth.voices[v].sustain_held
                /\ sent'[v] = <<"NoteDown">>
                /\ \A w \in Voices \ {v} :
                      /\ synth'.voices[w] = synth.voices[w]
                      /\ sent'[w] = <<>>
                /\ [synth' EXCEPT !.voices = synth.voices,
                                  !.pool = synth.pool] = synth]_vars

\* a NoteOn handled with the pedal down, while another voice plays
\* another note
C22_Witness ==
    /\ last.type = "NoteOn"
    /\ \E v, w \in Voices :
          /\ delivered = <<v>>
          /\ key_held(v) /\ sustain_held(v)
          /\ synth.voices[v].osc1.freq = midi_note_to_freq(last.d1)
          /\ w # v
          /\ key_held(w)
          /\ synth.voices[w].osc1.freq # midi_note_to_freq(last.d1)

\* what a handler run leaves: the synth and what the voices were sent
Effect(r) == <<r.synth, r.delivered, r.sent, r.calls>>

\* C23: the message SendMidiEvent(e) given to handle_message has the
\* effect of the event e handled in a tick's loop, for every kind of
\* event: in every state the two runs leave the same synth and send the
\* voices the same, and a step that applies SendMidiEvent(e) leaves what
\* handle_event(e) leaves.
C23_SendMidiEventIsTheEvent ==
    /\ [](\A e \in Events :
            \A pick \in PickChoices(synth, e) :
               Effect(HandleMessage(Run(synth), SendMidiEvent(e), pick))
                 = Effect(HandleEvent(Run(synth), e, pick)))
    /\ [][(call'.op = "handle_message" /\ call'.args[1].msg = "SendMidiEvent")
            => LET e == call'.args[1].ev
               IN  /\ last' = e
                   /\ \E pick \in PickChoices(synth, e) :
                         <<synth', delivered', sent', calls'>>
                           = Effect(HandleEvent(Run(synth), e, pick))]_vars

\* a controller event sent as a message: the control map has answered and
\* the answer was applied
C23_Witness ==
    /\ call = Call("handle_message", <<SendMidiEvent(ControlChange(22, MidiMax))>>)
    /\ calls = <<<<22, MidiMax>>>>
    /\ \A v \in Voices : synth.voices[v].adsr.attack = 5 * MidiMax

\* C24: no stuck notes: a voice whose envelope is gated on (NoteDown and
\* no NoteUp since) has key_held or sustain_held; so when no key is down
\* and the pedal is up, no voice is gated on: each has been sent NoteUp.
C24_NoStuckNotes ==
    /\ \A v \in Voices :
          gate(v) = "down" => key_held(v) \/ sustain_held(v)
    /\ (Pressed = {} /\ \A v \in Voices : ~sustain_held(v))
          => \A v \in Voices : gate(v) # "down" /\ ~key_held(v)

\* the pedal released after the last key: the voice it held is let go
C24_Witness ==
    /\ last = SustainPedal(0)
    /\ Pressed = {}
    /\ \E v \in Voices : sent[v] = <<"NoteUp">> /\ gate(v) = "up"
    /\ \A v \in Voices : gate(v) # "down"

\* C25: the flags agree with the pool: in every state a voice has
\* key_held exactly if some note is bound to it.
C25_KeyHeldIffBound ==
    \A v \in Voices : key_held(v) <=> v \in BoundVoices(synth.pool)

\* a voice that holds a stolen note next to one sustained by the pedal,
\* its key up and its note unbound
C25_Witness ==
    \E v, w \in Voices :
       /\ key_held(v) /\ v \in BoundVoices(synth.pool)
       /\ ~key_held(w) /\ gate(w) = "down" /\ w \notin BoundVoices(synth.pool)
       /\ StolenNotes # {}

\* the pedal value an event carries to the voices, -1 if it carries none:
\* a SustainPedal event, or a ControlChange that the control map f answers
\* with SendMidiEvent(SustainPedal(..))
PedalOf(e, f) ==
    IF e.type = "SustainPedal" THEN e.d1
    ELSE IF e.type = "ControlChange" /\ f # "None"
         THEN LET m == CallMap(f, e.d1, e.d2)
              IN  IF m.msg = "SendMidiEvent" /\ m.ev.type = "SustainPedal"
                  THEN m.ev.d1 ELSE -1
         ELSE -1

PedalUnchanged ==
    \A v \in Voices :
        synth'.voices[v].sustain_held = synth.voices[v].sustain_held

PedalUniform ==
    \A v, w \in Voices : sustain_held(v) = sustain_held(w)

\* C26, as claimed: all voices have the same sustain_held, false on the
\* new synth, and only a SustainPedal event changes it: NoteOn, NoteOff,
\* PitchBend, ControlChange and parameter messages never do.
C26_OnlyPedalEventsMoveThePedal ==
    /\ []PedalUniform
    /\ [][/\ call.op = "new" => \A v \in Voices : ~sustain_held(v)
          /\ last'.type = "SustainPedal"
               => \A v \in Voices :
                     synth'.voices[v].sustain_held = (last'.d1 = 1)
          /\ last'.type # "SustainPedal" => PedalUnchanged]_vars

\* C26: all voices have the same sustain_held, false on the new synth,
\* and it is the argument of the last SustainPedal event handled, the
\* ones a control map sends in answer to a ControlChange included; no
\* other event and no parameter message changes it.
C26_PedalIsGlobal ==
    /\ [](/\ PedalUniform
          /\ \A m \in ParameterMessages :
                \A v \in Voices :
                   HandleMessage(Run(synth), m, 1).synth.voices[v].sustain_held
                     = sustain_held(v))
    /\ [][/\ call.op = "new" => \A v \in Voices : ~sustain_held(v)
          /\ LET b == PedalOf(last', synth.controls)
             IN  IF b = -1 THEN PedalUnchanged
                 ELSE \A v \in Voices :
                         synth'.voices[v].sustain_held = (b = 1)]_vars

\* the pedal put down by a controller that the map answers with
\* SustainPedal(true), while a key is held
C26_Witness ==
    /\ last = ControlChange(64, MidiMax)
    /\ calls = <<<<64, MidiMax>>>>
    /\ \A v \in Voices : sustain_held(v)
    /\ \E v \in Voices : key_held(v)

\* the voices gated on (NoteDown and no NoteUp since) for the note
GatedOn(n) ==
    {v \in Voices : /\ gate(v) = "down"
                    /\ synth.voices[v].osc1.freq = midi_note_to_freq(n)}

\* C27, as claimed: for every note at most one voice at a time is gated
\* on for it, also after NoteOn(n), SustainPedal(true), NoteOff(n),
\* NoteOn(n).
C27_OneGatedVoicePerNote ==
    \A n \in Notes : Cardinality(GatedOn(n)) <= 1

\* C27: for every note at most one voice at a time is gated on for it
\* with its key held, and that voice is the one the note is bound to; the
\* other voices gated on for the note are held by the pedal alone.
C27_OneKeyedVoicePerNote ==
    \A n \in Notes :
        /\ Cardinality({v \in GatedOn(n) : key_held(v)}) <= 1
        /\ \A v \in GatedOn(n) :
              IF key_held(v) THEN synth.pool[n] = v ELSE sustain_held(v)

\* a key struck again under the pedal: two voices are gated on for the
\* note, one with the key held, one held by the pedal
C27_Witness ==
    \E n \in Notes :
       \E v, w \in GatedOn(n) :
          /\ v # w
          /\ key_held(v) /\ synth.pool[n] = v
          /\ ~key_held(w) /\ sustain_held(w)
====
